---------------------------- MODULE Spec2Model ----------------------------
(***************************************************************************)
(* glimesh-bridge: a relay between the Glimesh chat websocket and a        *)
(* Kilovolt key-value store (src/main.go).                                 *)
(*                                                                         *)
(* Two tasks run in the process: the websocket read goroutine (the        *)
(* "reader", main.go:141-170) and the select loop of main (the "loop",    *)
(* main.go:179-216).  They meet on the unbuffered channel wsmsg.  The      *)
(* store, the socket, the ticker and the store subscription are the       *)
(* environment; every call into them has the outcomes the code handles.   *)
(***************************************************************************)
EXTENDS Integers, Sequences, FiniteSets, TLC

VARIABLES
    capacity,     \* *chatHistorySize, the -chat-history flag
    kvHistory,    \* the store's value under chatHistoryKey
    kvLatest,     \* the store's value under chatEventKey
    chatHistory,  \* the in-memory []ChatMessage of main
    status,       \* the process: "running", "exited" (os.Exit) or "panicked"
    pc,           \* where the main goroutine stands
    msg,          \* the msg of the case msg := <-wsmsg
    rpc,          \* the read goroutine: "idle", "read", "decode" or "send"
    wsmsg,        \* the value the reader is blocked sending on wsmsg
    tickPending,  \* ticker.C (a channel of capacity 1) holds a tick
    incoming,     \* the key/value pairs waiting in the subscription channel
    sock,         \* the frames the loop has written to the websocket, in order
    writes,       \* every SetJSON call made so far: key, value, outcome
    arrived,      \* the messages the reader has put on wsmsg, in order
    processed,    \* the messages the loop has taken from wsmsg, in order
    frame,        \* the frame c.Read returned to the reader (mtyp, byt)
    nframes,      \* how many frames the reader has read
    nticks,       \* how many ticks the ticker has produced
    reqs,         \* the payloads written to chatRPCKey so far, in order
    found,        \* what the startup read of chatHistoryKey met
    loaded,       \* chatHistory as the startup load left it
    lastErr       \* the last error met outside the store: connect, subscribe,
                  \* read, decode, heartbeat or send (store errors are in
                  \* writes)

vars == <<capacity, kvHistory, kvLatest, chatHistory, status, pc, msg,
          rpc, wsmsg, tickPending, incoming, sock, writes, arrived, processed,
          frame, nframes, nticks, reqs, found, loaded, lastErr>>

---------------------------------------------------------------------------
(* Bounds of the model *)

(* The inputs the environment produces in one run: frames read from the
   socket, ticks of the ticker and writes of chatRPCKey, together. *)
MaxEvents == 3

(* The length of a raw payload in the study of the escaping. *)
MaxLen == 3

---------------------------------------------------------------------------
(* Data *)

Msgs == {"A", "B"}

NoMsg == "none"

Null == "null"

Quote == "\""

Backslash == "\\"

Space == " "

Alphabet == {Quote, Backslash, Space, "a"}

SeqsUpTo(S, n) == UNION {[1..k -> S] : k \in 0..n}

(* The values of the -chat-history flag, an int: the flag is not validated. *)
Caps == -1..2

(* A frame read from the websocket: its type, whether the 5-element array
   unmarshals, the two leading tags, and the ChatMessage nested in the 5th
   element. *)
Frame(k, d, t1, t2, b) ==
    [kind |-> k, decodes |-> d, msgType |-> t1, msgSubType |-> t2, body |-> b]

(* Data-push frames, and the control frames (replies to the join and to the
   heartbeat carry both tags). *)
TextFrames ==
    {Frame("text", TRUE, Null, Null, m) : m \in Msgs}
    \cup {Frame("text", TRUE, "1", "1", "A"), Frame("text", TRUE, "1", Null, "A"),
          Frame("text", TRUE, Null, "1", "A")}

BadFrames ==
    {[kind |-> "text", decodes |-> FALSE, msgType |-> Null,
      msgSubType |-> Null, body |-> "A"]}

BinaryFrames ==
    {[kind |-> "binary", decodes |-> TRUE, msgType |-> Null,
      msgSubType |-> Null, body |-> "A"]}

Frames == TextFrames \cup BadFrames \cup BinaryFrames

NoFrame ==
    [kind |-> "none", decodes |-> FALSE, msgType |-> Null,
     msgSubType |-> Null, body |-> NoMsg]

(* The store's value under chatHistoryKey: no key, a value that does not
   unmarshal into []ChatMessage, or a list of messages. *)
Absent == [st |-> "absent", val |-> <<>>]

Corrupt == [st |-> "corrupt", val |-> <<>>]

Stored(h) == [st |-> "ok", val |-> h]

HeartbeatFrame == [event |-> "heartbeat", message |-> <<>>]

SendFrame(m) == [event |-> "doc", message |-> m]

---------------------------------------------------------------------------
(* Pure functions of the code *)

(* strings.Replace(kv.Value, "\"", "\\\"", -1) *)
RECURSIVE ReplaceQuotes(_)
ReplaceQuotes(s) ==
    IF s = <<>> THEN <<>>
    ELSE IF Head(s) = Quote
         THEN <<Backslash, Quote>> \o ReplaceQuotes(Tail(s))
         ELSE <<Head(s)>> \o ReplaceQuotes(Tail(s))

RECURSIVE TrimLeft(_)
TrimLeft(s) ==
    IF s # <<>> /\ Head(s) = Space THEN TrimLeft(Tail(s)) ELSE s

RECURSIVE TrimRight(_)
TrimRight(s) ==
    IF s # <<>> /\ s[Len(s)] = Space
    THEN TrimRight(SubSeq(s, 1, Len(s) - 1))
    ELSE s

(* strings.TrimSpace *)
TrimSpace(s) == TrimRight(TrimLeft(s))

(* message := strings.TrimSpace(strings.Replace(kv.Value, ...)) *)
EscapeMessage(v) == TrimSpace(ReplaceQuotes(v))

(* Mutant of IsDataPush: || in place of &&. *)
IsDataPushEitherNil(f) == f.msgType = Null \/ f.msgSubType = Null

(* if msgType == nil && msgSubType == nil *)
IsDataPush(f) == f.msgType = Null /\ f.msgSubType = Null

(* the slice expression chatHistory[len(chatHistory)-*chatHistorySize:]
   panics when its low bound is above len(chatHistory) *)
SlicePanics(h, cap) == Len(h) > cap /\ Len(h) - cap > Len(h)

(* Mutant of Truncate: the window keeps the oldest entries,
   chatHistory[:*chatHistorySize]. *)
TruncateKeepsOldest(h, cap) ==
    IF Len(h) > cap THEN SubSeq(h, 1, cap) ELSE h

(* if len(chatHistory) > *chatHistorySize {
       chatHistory = chatHistory[len(chatHistory)-*chatHistorySize:] } *)
Truncate(h, cap) ==
    IF Len(h) > cap THEN SubSeq(h, Len(h) - cap + 1, Len(h)) ELSE h

(* The outcomes of a call into the store or the socket: it returns nil or it
   returns an error.  A call that has not returned yet is the state before the
   action that models its return. *)
Outcomes == {"ok", "err"}

(* The payloads other store clients write to chatRPCKey. *)
ReqTexts == {<<"a">>, <<Space, Quote>>}

(* The snapshots a previous run may have left under chatHistoryKey. *)
OldHistories == {<<>>, <<"A">>, <<"B", "A">>}

Snapshots == {Absent, Corrupt} \cup {Stored(h) : h \in OldHistories}

Write(key, val, out) == [key |-> key, val |-> val, ok |-> (out = "ok")]

---------------------------------------------------------------------------
(* The state when main starts, main.go:76-112 *)

Init ==
    /\ capacity \in Caps
    /\ kvHistory \in Snapshots
    /\ kvLatest = NoMsg
    /\ chatHistory = <<>>
    /\ status = "running"
    /\ pc = "load"
    /\ msg = NoMsg
    /\ rpc = "idle"
    /\ wsmsg = NoMsg
    /\ tickPending = FALSE
    /\ incoming = <<>>
    /\ sock = <<>>
    /\ writes = <<>>
    /\ arrived = <<>>
    /\ processed = <<>>
    /\ frame = NoFrame
    /\ nframes = 0
    /\ nticks = 0
    /\ reqs = <<>>
    /\ found = "unread"
    /\ loaded = <<>>
    /\ lastErr = "none"

Running == status = "running"

(* The inputs the environment has produced so far: frames on the socket, ticks
   of the ticker, writes of chatRPCKey. *)
Events == nframes + nticks + Len(reqs)

(* The main goroutine can take a step. *)
LoopRuns == Running

envVars == <<tickPending, incoming, nticks, reqs>>

readerVars == <<rpc, wsmsg, arrived, frame, nframes>>

storeVars == <<kvHistory, kvLatest, writes>>

startVars == <<capacity, found, loaded>>

---------------------------------------------------------------------------
(* Startup, main.go:113-178 *)

(* err = client.GetJSON(chatHistoryKey, &chatHistory): the read fails when the
   key is absent, when its value does not unmarshal, or when the request
   itself fails. *)
GetFails(snapshot, out) == snapshot.st # "ok" \/ out # "ok"

(* Mutant of LoadHistory: the empty history is not written back. *)
LoadHistoryNoWriteBack ==
    /\ LoopRuns /\ pc = "load"
    /\ \E get \in {"ok", "err"} :
          /\ chatHistory' = IF GetFails(kvHistory, get) THEN <<>>
                             ELSE kvHistory.val
          /\ found' = IF kvHistory.st # "ok" THEN kvHistory.st
                       ELSE IF get = "ok" THEN "snapshot" ELSE "error"
    /\ loaded' = chatHistory'
    /\ pc' = "connect"
    /\ UNCHANGED <<capacity, kvLatest, status, msg, sock, processed, lastErr>>
    /\ UNCHANGED <<envVars, readerVars, kvHistory, writes>>

(* main.go:113-119 *)
LoadHistory ==
    /\ LoopRuns /\ pc = "load"
    /\ \E get \in {"ok", "err"}, set \in {"ok", "err"} :
          /\ IF GetFails(kvHistory, get)
             THEN /\ chatHistory' = <<>>
                  /\ writes' = Append(writes, Write("history", <<>>, set))
                  /\ kvHistory' = IF set = "ok" THEN Stored(<<>>) ELSE kvHistory
             ELSE /\ set = "ok"
                  /\ chatHistory' = kvHistory.val
                  /\ UNCHANGED <<writes, kvHistory>>
          /\ found' = IF kvHistory.st # "ok" THEN kvHistory.st
                       ELSE IF get = "ok" THEN "snapshot" ELSE "error"
    /\ loaded' = chatHistory'
    /\ pc' = "connect"
    /\ UNCHANGED <<capacity, kvLatest, status, msg, sock, processed, lastErr>>
    /\ UNCHANGED <<envVars, readerVars>>

(* main.go:121-170: the token, the dial, the two join frames (each checked,
   os.Exit(1) on failure), then the read goroutine is started. *)
Connect ==
    /\ LoopRuns /\ pc = "connect"
    /\ \E out \in {"ok", "err"} :
          IF out = "ok"
          THEN /\ pc' = "subscribe" /\ rpc' = "read"
               /\ UNCHANGED <<status, lastErr>>
          ELSE /\ status' = "exited" /\ lastErr' = "connect"
               /\ UNCHANGED <<pc, rpc>>
    /\ UNCHANGED <<chatHistory, msg, sock, processed, wsmsg, arrived, frame,
                   nframes>>
    /\ UNCHANGED <<envVars, storeVars, startVars>>

(* main.go:172-178: client.SubscribeKey(chatRPCKey), log.Fatal on failure, then
   the ticker is created. *)
Subscribe ==
    /\ LoopRuns /\ pc = "subscribe"
    /\ \E out \in {"ok", "err"} :
          IF out = "ok"
          THEN pc' = "select" /\ UNCHANGED <<status, lastErr>>
          ELSE status' = "exited" /\ lastErr' = "subscribe" /\ pc' = pc
    /\ UNCHANGED <<chatHistory, msg, sock, processed>>
    /\ UNCHANGED <<envVars, readerVars, storeVars, startVars>>

---------------------------------------------------------------------------
(* The websocket read goroutine, main.go:141-170 *)

(* main.go:151-165: a text frame that unmarshals and whose two leading tags
   are both nil carries a chat message. *)
Hands(f) == f.kind = "text" /\ f.decodes /\ IsDataPush(f)

(* main.go:159-163: the text frame does not unmarshal into the 5-element
   payload; the error is logged and the reader continues. *)
Undecodable(f) == f.kind = "text" /\ ~f.decodes

(* main.go:143, c.Read returned a frame. *)
ReadFrame ==
    /\ Running /\ rpc = "read"
    /\ Events < MaxEvents
    /\ \E f \in Frames : frame' = f
    /\ nframes' = nframes + 1
    /\ rpc' = "decode"
    /\ UNCHANGED <<chatHistory, status, pc, msg, sock, processed, wsmsg,
                   arrived, lastErr>>
    /\ UNCHANGED <<envVars, storeVars, startVars>>

(* Mutant of Dispatch: a send that does not block (select with a default
   case); the message is lost when the loop is not at its receive. *)
DispatchNonBlocking ==
    /\ Running /\ rpc = "decode"
    /\ IF Hands(frame)
       THEN /\ arrived' = Append(arrived, frame.body)
            /\ IF pc = "select"
               THEN rpc' = "send" /\ wsmsg' = frame.body
               ELSE rpc' = "read" /\ wsmsg' = wsmsg
       ELSE /\ rpc' = "read"
            /\ UNCHANGED <<wsmsg, arrived>>
    /\ lastErr' = IF Undecodable(frame) THEN "decode" ELSE lastErr
    /\ UNCHANGED <<chatHistory, status, pc, msg, sock, processed, frame,
                   nframes>>
    /\ UNCHANGED <<envVars, storeVars, startVars>>

(* Mutant of Dispatch: a frame that does not decode ends the process
   (Fatal in place of Error at main.go:161). *)
DispatchFatalOnDecodeError ==
    /\ Running /\ rpc = "decode"
    /\ IF Hands(frame)
       THEN /\ rpc' = "send"
            /\ wsmsg' = frame.body
            /\ arrived' = Append(arrived, frame.body)
       ELSE /\ rpc' = "read"
            /\ UNCHANGED <<wsmsg, arrived>>
    /\ lastErr' = IF Undecodable(frame) THEN "decode" ELSE lastErr
    /\ status' = IF Undecodable(frame) THEN "exited" ELSE status
    /\ UNCHANGED <<chatHistory, pc, msg, sock, processed, frame, nframes>>
    /\ UNCHANGED <<envVars, storeVars, startVars>>

(* main.go:150-168: a data-push frame takes the reader to wsmsg <- ..., where
   it blocks until the loop receives; any other frame takes it back to
   c.Read. *)
Dispatch ==
    /\ Running /\ rpc = "decode"
    /\ IF Hands(frame)
       THEN /\ rpc' = "send"
            /\ wsmsg' = frame.body
            /\ arrived' = Append(arrived, frame.body)
       ELSE /\ rpc' = "read"
            /\ UNCHANGED <<wsmsg, arrived>>
    /\ lastErr' = IF Undecodable(frame) THEN "decode" ELSE lastErr
    /\ UNCHANGED <<chatHistory, status, pc, msg, sock, processed, frame,
                   nframes>>
    /\ UNCHANGED <<envVars, storeVars, startVars>>

(* main.go:144-149, c.Read returned an error (io.EOF or any other): log.Fatal
   ends the process. *)
ReadError ==
    /\ Running /\ rpc = "read"
    /\ status' = "exited"
    /\ lastErr' = "read"
    /\ UNCHANGED <<chatHistory, pc, msg, sock, processed>>
    /\ UNCHANGED <<envVars, readerVars, storeVars, startVars>>

---------------------------------------------------------------------------
(* The environment of the loop *)

Looping == pc \notin {"load", "connect", "subscribe"}

(* time.NewTicker(30 * time.Second), main.go:178: ticker.C holds one tick; a
   tick that finds it full is dropped. *)
Tick ==
    /\ Running /\ Looping
    /\ Events < MaxEvents
    /\ nticks' = nticks + 1
    /\ tickPending' = TRUE
    /\ UNCHANGED <<chatHistory, status, pc, msg, sock, processed, incoming,
                   reqs, lastErr>>
    /\ UNCHANGED <<readerVars, storeVars, startVars>>

(* A store client writes chatRPCKey; the subscription of main.go:172 delivers
   the pair on incoming. *)
RpcWrite ==
    /\ Running /\ Looping
    /\ Events < MaxEvents
    /\ \E v \in ReqTexts :
          /\ reqs' = Append(reqs, v)
          /\ incoming' = Append(incoming, v)
    /\ UNCHANGED <<chatHistory, status, pc, msg, sock, processed,
                   tickPending, nticks, lastErr>>
    /\ UNCHANGED <<readerVars, storeVars, startVars>>

---------------------------------------------------------------------------
(* The select loop, main.go:179-216 *)

(* Mutant of Heartbeat: the failed write is logged and the loop goes on. *)
HeartbeatErrorLogged ==
    /\ LoopRuns /\ pc = "select"
    /\ tickPending
    /\ tickPending' = FALSE
    /\ \E out \in Outcomes :
          /\ sock' = IF out = "ok" THEN Append(sock, HeartbeatFrame) ELSE sock
          /\ lastErr' = IF out = "err" THEN "heartbeat" ELSE lastErr
    /\ UNCHANGED <<chatHistory, status, pc, msg, processed, incoming, nticks,
                   reqs>>
    /\ UNCHANGED <<readerVars, storeVars, startVars>>

(* Mutant of Heartbeat: the tick is served wherever the loop stands. *)
HeartbeatAnywhere ==
    /\ LoopRuns /\ Looping
    /\ tickPending
    /\ tickPending' = FALSE
    /\ \E out \in Outcomes :
          /\ sock' = IF out = "ok" THEN Append(sock, HeartbeatFrame) ELSE sock
          /\ status' = IF out = "err" THEN "exited" ELSE status
          /\ lastErr' = IF out = "err" THEN "heartbeat" ELSE lastErr
    /\ UNCHANGED <<chatHistory, pc, msg, processed, incoming, nticks, reqs>>
    /\ UNCHANGED <<readerVars, storeVars, startVars>>

(* case <-ticker.C, main.go:181-182: check(c.Write(...heartbeat...)) *)
Heartbeat ==
    /\ LoopRuns /\ pc = "select"
    /\ tickPending
    /\ tickPending' = FALSE
    /\ \E out \in Outcomes :
          /\ sock' = IF out = "ok" THEN Append(sock, HeartbeatFrame) ELSE sock
          /\ status' = IF out = "err" THEN "exited" ELSE status
          /\ lastErr' = IF out = "err" THEN "heartbeat" ELSE lastErr
    /\ UNCHANGED <<chatHistory, pc, msg, processed, incoming, nticks, reqs>>
    /\ UNCHANGED <<readerVars, storeVars, startVars>>

(* case msg := <-wsmsg, main.go:183-184: the receive releases the reader. *)
RecvChat ==
    /\ LoopRuns /\ pc = "select"
    /\ rpc = "send"
    /\ msg' = wsmsg
    /\ processed' = Append(processed, wsmsg)
    /\ rpc' = "read"
    /\ wsmsg' = NoMsg
    /\ pc' = "setLatest"
    /\ UNCHANGED <<chatHistory, status, sock, arrived, frame, nframes,
                   lastErr>>
    /\ UNCHANGED <<envVars, storeVars, startVars>>

(* Mutant of SetLatest: a failed write ends the reaction (continue). *)
SetLatestContinueOnError ==
    /\ LoopRuns /\ pc = "setLatest"
    /\ \E out \in Outcomes :
          /\ writes' = Append(writes, Write("latest", msg, out))
          /\ kvLatest' = IF out = "ok" THEN msg ELSE kvLatest
          /\ pc' = IF out = "ok" THEN "append" ELSE "select"
    /\ UNCHANGED <<kvHistory, chatHistory, status, msg, sock, processed,
                   lastErr>>
    /\ UNCHANGED <<envVars, readerVars, startVars>>

(* main.go:185-188: err := client.SetJSON(chatEventKey, msg); logged *)
SetLatest ==
    /\ LoopRuns /\ pc = "setLatest"
    /\ \E out \in Outcomes :
          /\ writes' = Append(writes, Write("latest", msg, out))
          /\ kvLatest' = IF out = "ok" THEN msg ELSE kvLatest
          /\ pc' = "append"
    /\ UNCHANGED <<kvHistory, chatHistory, status, msg, sock, processed,
                   lastErr>>
    /\ UNCHANGED <<envVars, readerVars, startVars>>

(* Mutant of AppendHistory: the message is appended to the history the store
   holds, not to the one in memory. *)
AppendHistoryFromStore ==
    /\ LoopRuns /\ pc = "append"
    /\ LET h == Append(kvHistory.val, msg) IN
          IF SlicePanics(h, capacity)
          THEN /\ chatHistory' = h
               /\ status' = "panicked"
               /\ pc' = pc
          ELSE /\ chatHistory' = Truncate(h, capacity)
               /\ status' = status
               /\ pc' = "setHistory"
    /\ UNCHANGED <<msg, sock, processed, lastErr>>
    /\ UNCHANGED <<envVars, readerVars, storeVars, startVars>>

(* main.go:189-192: append, then keep the last *chatHistorySize entries *)
AppendHistory ==
    /\ LoopRuns /\ pc = "append"
    /\ LET h == Append(chatHistory, msg) IN
          IF SlicePanics(h, capacity)
          THEN /\ chatHistory' = h
               /\ status' = "panicked"
               /\ pc' = pc
          ELSE /\ chatHistory' = Truncate(h, capacity)
               /\ status' = status
               /\ pc' = "setHistory"
    /\ UNCHANGED <<msg, sock, processed, lastErr>>
    /\ UNCHANGED <<envVars, readerVars, storeVars, startVars>>

(* Mutant of SetHistory: the history is written under chatEventKey. *)
SetHistoryWrongKey ==
    /\ LoopRuns /\ pc = "setHistory"
    /\ \E out \in Outcomes :
          /\ writes' = Append(writes, Write("latest", chatHistory, out))
          /\ kvLatest' = IF out = "ok" THEN chatHistory ELSE kvLatest
          /\ pc' = "select"
    /\ UNCHANGED <<kvHistory, chatHistory, status, msg, sock, processed,
                   lastErr>>
    /\ UNCHANGED <<envVars, readerVars, startVars>>

(* Mutant of SetHistory: a failed write of the history key is fatal. *)
SetHistoryFatal ==
    /\ LoopRuns /\ pc = "setHistory"
    /\ \E out \in Outcomes :
          /\ writes' = Append(writes, Write("history", chatHistory, out))
          /\ kvHistory' = IF out = "ok" THEN Stored(chatHistory) ELSE kvHistory
          /\ status' = IF out = "ok" THEN status ELSE "exited"
          /\ pc' = "select"
    /\ UNCHANGED <<kvLatest, chatHistory, msg, sock, processed, lastErr>>
    /\ UNCHANGED <<envVars, readerVars, startVars>>

(* main.go:193-196: err = client.SetJSON(chatHistoryKey, chatHistory); logged *)
SetHistory ==
    /\ LoopRuns /\ pc = "setHistory"
    /\ \E out \in Outcomes :
          /\ writes' = Append(writes, Write("history", chatHistory, out))
          /\ kvHistory' = IF out = "ok" THEN Stored(chatHistory) ELSE kvHistory
          /\ pc' = "select"
    /\ UNCHANGED <<kvLatest, chatHistory, status, msg, sock, processed,
                   lastErr>>
    /\ UNCHANGED <<envVars, readerVars, startVars>>

(* Mutant of ForwardRequest: a request whose send failed stays at the head of
   incoming and is sent again. *)
ForwardRequestRetry ==
    /\ LoopRuns /\ pc = "select"
    /\ incoming # <<>>
    /\ \E out \in Outcomes :
          /\ incoming' = IF out = "ok" THEN Tail(incoming) ELSE incoming
          /\ sock' = IF out = "ok"
                     THEN Append(sock, SendFrame(EscapeMessage(Head(incoming))))
                     ELSE sock
          /\ lastErr' = IF out = "err" THEN "send" ELSE lastErr
    /\ UNCHANGED <<chatHistory, status, pc, msg, processed, tickPending,
                   nticks, reqs>>
    /\ UNCHANGED <<readerVars, storeVars, startVars>>

(* Mutant of ForwardRequest: the outgoing text is also published under the
   latest key, as a ChatMessage (A stands for it). *)
ForwardRequestEchoed ==
    /\ LoopRuns /\ pc = "select"
    /\ incoming # <<>>
    /\ incoming' = Tail(incoming)
    /\ \E out \in Outcomes :
          /\ sock' = IF out = "ok"
                     THEN Append(sock, SendFrame(EscapeMessage(Head(incoming))))
                     ELSE sock
          /\ lastErr' = IF out = "err" THEN "send" ELSE lastErr
    /\ kvLatest' = "A"
    /\ UNCHANGED <<chatHistory, status, pc, msg, processed, tickPending,
                   nticks, reqs>>
    /\ UNCHANGED <<readerVars, kvHistory, writes, startVars>>

(* case kv := <-incoming, main.go:197-214: escape, build the mutation, write
   it to the socket; a failed write is logged and the loop continues. *)
ForwardRequest ==
    /\ LoopRuns /\ pc = "select"
    /\ incoming # <<>>
    /\ incoming' = Tail(incoming)
    /\ \E out \in Outcomes :
          /\ sock' = IF out = "ok"
                     THEN Append(sock, SendFrame(EscapeMessage(Head(incoming))))
                     ELSE sock
          /\ lastErr' = IF out = "err" THEN "send" ELSE lastErr
    /\ UNCHANGED <<chatHistory, status, pc, msg, processed, tickPending,
                   nticks, reqs>>
    /\ UNCHANGED <<readerVars, storeVars, startVars>>

---------------------------------------------------------------------------

Next ==
    \/ LoadHistory
    \/ Connect
    \/ Subscribe
    \/ ReadFrame
    \/ Dispatch
    \/ ReadError
    \/ Tick
    \/ RpcWrite
    \/ Heartbeat
    \/ RecvChat
    \/ SetLatest
    \/ AppendHistory
    \/ SetHistory
    \/ ForwardRequest

Spec == Init /\ [][Next]_vars

(* The main goroutine keeps being scheduled: its calls return, and the select
   of main.go:180 takes the receive from wsmsg when that case stays ready (the
   choice among ready cases is uniformly random).  Nothing is asked of the
   environment: frames, ticks, requests and errors may or may not come. *)
MainStep ==
    \/ LoadHistory
    \/ Connect
    \/ Subscribe
    \/ RecvChat
    \/ SetLatest
    \/ AppendHistory
    \/ SetHistory

Fairness == WF_vars(MainStep)

SpecFair == Spec /\ Fairness

---------------------------------------------------------------------------
(* The forwarding of one outgoing request, studied over every short payload:
   the process has started (default -chat-history 6, empty snapshot) and the
   subscription has delivered one write of chatRPCKey. *)

InitEscape ==
    /\ capacity = 6
    /\ kvHistory = Stored(<<>>)
    /\ kvLatest = NoMsg
    /\ chatHistory = <<>>
    /\ status = "running"
    /\ pc = "select"
    /\ msg = NoMsg
    /\ rpc = "read"
    /\ wsmsg = NoMsg
    /\ tickPending = FALSE
    /\ \E v \in SeqsUpTo(Alphabet, MaxLen) :
          /\ incoming = <<v>>
          /\ reqs = <<v>>
    /\ sock = <<>>
    /\ writes = <<>>
    /\ arrived = <<>>
    /\ processed = <<>>
    /\ frame = NoFrame
    /\ nframes = 0
    /\ nticks = 0
    /\ found = "snapshot"
    /\ loaded = <<>>
    /\ lastErr = "none"

NextEscape == ForwardRequest

SpecEscape == InitEscape /\ [][NextEscape]_vars

---------------------------------------------------------------------------
(* The loop with its two socket writes at the grain of call and return: the
   loop stands at pc = "beat" inside the c.Write of main.go:182 and at
   pc = "forward" inside the c.Write of main.go:209 until the call returns.
   (The store writes already have that grain: pc = "setLatest" and
   pc = "setHistory" are the loop inside SetJSON.)  The process runs with
   -chat-history 2. *)

(* The request taken from incoming last, kv of main.go:197. *)
InFlight == reqs[Len(reqs) - Len(incoming)]

(* Mutant of HeartbeatCall: the heartbeat is written from a task of its own,
   wherever the loop stands. *)
HeartbeatCallDetached ==
    /\ Running /\ Looping
    /\ tickPending
    /\ tickPending' = FALSE
    /\ sock' = Append(sock, HeartbeatFrame)
    /\ UNCHANGED <<chatHistory, status, pc, msg, processed, incoming, nticks,
                   reqs, lastErr>>
    /\ UNCHANGED <<readerVars, storeVars, startVars>>

(* case <-ticker.C, main.go:181: the tick is taken and c.Write is entered *)
HeartbeatCall ==
    /\ LoopRuns /\ pc = "select"
    /\ tickPending
    /\ tickPending' = FALSE
    /\ pc' = "beat"
    /\ UNCHANGED <<chatHistory, status, msg, sock, processed, incoming, nticks,
                   reqs, lastErr>>
    /\ UNCHANGED <<readerVars, storeVars, startVars>>

(* main.go:182: c.Write returns; check() ends the process on an error *)
HeartbeatReturn ==
    /\ LoopRuns /\ pc = "beat"
    /\ \E out \in Outcomes :
          IF out = "ok"
          THEN /\ sock' = Append(sock, HeartbeatFrame)
               /\ pc' = "select"
               /\ UNCHANGED <<status, lastErr>>
          ELSE /\ status' = "exited" /\ lastErr' = "heartbeat"
               /\ UNCHANGED <<sock, pc>>
    /\ UNCHANGED <<chatHistory, msg, processed>>
    /\ UNCHANGED <<envVars, readerVars, storeVars, startVars>>

(* case kv := <-incoming, main.go:197-209: the pair is taken, the frame is
   built and c.Write is entered *)
ForwardCall ==
    /\ LoopRuns /\ pc = "select"
    /\ incoming # <<>>
    /\ incoming' = Tail(incoming)
    /\ pc' = "forward"
    /\ UNCHANGED <<chatHistory, status, msg, sock, processed, tickPending,
                   nticks, reqs, lastErr>>
    /\ UNCHANGED <<readerVars, storeVars, startVars>>

(* main.go:209-214: c.Write returns; an error is logged *)
ForwardReturn ==
    /\ LoopRuns /\ pc = "forward"
    /\ \E out \in Outcomes :
          /\ sock' = IF out = "ok"
                     THEN Append(sock, SendFrame(EscapeMessage(InFlight)))
                     ELSE sock
          /\ lastErr' = IF out = "err" THEN "send" ELSE lastErr
    /\ pc' = "select"
    /\ UNCHANGED <<chatHistory, status, msg, processed>>
    /\ UNCHANGED <<envVars, readerVars, storeVars, startVars>>

InitStall ==
    /\ Init
    /\ capacity = 2
    /\ kvHistory \in {Absent, Stored(<<"A">>)}

NextStall ==
    \/ LoadHistory
    \/ Connect
    \/ Subscribe
    \/ ReadFrame
    \/ Dispatch
    \/ ReadError
    \/ Tick
    \/ RpcWrite
    \/ HeartbeatCall
    \/ HeartbeatReturn
    \/ RecvChat
    \/ SetLatest
    \/ AppendHistory
    \/ SetHistory
    \/ ForwardCall
    \/ ForwardReturn

SpecStall == InitStall /\ [][NextStall]_vars

---------------------------------------------------------------------------
(* Vocabulary of the properties *)

Last(s) == s[Len(s)]

(* The last n elements of s, n >= 0. *)
LastN(s, n) == IF n >= Len(s) THEN s ELSE [i \in 1..n |-> s[Len(s) - n + i]]

IsPrefix(a, b) == Len(a) <= Len(b) /\ \A i \in 1..Len(a) : a[i] = b[i]

IsLatest(w) == w.key = "latest"

IsHistory(w) == w.key = "history"

LatestWrites == SelectSeq(writes, IsLatest)

(* The loop is between two reactions (or the process ended there). *)
BetweenReactions == pc = "select"

---------------------------------------------------------------------------
(* C1: from the startup load onward, the in-memory ChatHistory and the history
   persisted under chatHistoryKey never hold more than `capacity` messages,
   whatever the capacity and whatever the store held before.  (Stated for the
   capacities a length can stay under, those that are not negative.) *)
C1_HistoryBounded ==
    (pc # "load" /\ capacity >= 0) =>
        /\ Len(chatHistory) <= capacity
        /\ kvHistory.st = "ok" => Len(kvHistory.val) <= capacity

---------------------------------------------------------------------------
(* C2 as stated: starting from an empty history, after the reaction to the k-th
   message the persisted history is the last min(k, capacity) messages received,
   in arrival order. *)
C2_PersistedWindow ==
    (BetweenReactions /\ loaded = <<>> /\ processed # <<>>) =>
        kvHistory = Stored(LastN(processed, capacity))

(* C2 amended: the same, for every k whose history write succeeded. *)
C2_PersistedWindowWhenWritten ==
    (/\ BetweenReactions /\ loaded = <<>> /\ processed # <<>>
     /\ IsHistory(Last(writes)) /\ Last(writes).ok) =>
        kvHistory = Stored(LastN(processed, capacity))

(* Capacity 2 and three messages: the oldest has left the persisted window. *)
C2_Witness ==
    /\ BetweenReactions /\ loaded = <<>> /\ capacity = 2
    /\ processed = <<"A", "B", "A">>
    /\ IsHistory(Last(writes)) /\ Last(writes).ok
    /\ kvHistory = Stored(<<"B", "A">>)

---------------------------------------------------------------------------
(* C3 as stated: once the reaction to a message m is finished the latest key
   holds m, until the reaction to the next message. *)
C3_LatestIsLastMessage ==
    (BetweenReactions /\ processed # <<>>) => kvLatest = Last(processed)

(* C3 amended: once the latest-key write of the reaction to m has succeeded the
   latest key holds m, through the rest of that reaction and until the reaction
   to the next message; and only that step of a chat-message reaction changes
   the latest key. *)
C3_LatestWhenWritten ==
    /\ [](/\ processed # <<>>
          /\ pc \in {"append", "setHistory", "select"}
          /\ LatestWrites # <<>> /\ Last(LatestWrites).ok
          => kvLatest = Last(processed))
    /\ [][kvLatest' # kvLatest => pc = "setLatest"]_vars

(* The latest key still holds B after a heartbeat and an outgoing request
   were handled. *)
C3_Witness ==
    /\ BetweenReactions /\ processed = <<"B">> /\ kvLatest = "B"
    /\ Len(sock) = 2 /\ sock[1] = HeartbeatFrame

---------------------------------------------------------------------------
(* C4: the reader puts a ChatMessage on wsmsg only for a frame whose two
   leading tags are both null; a frame with one or both tags present produces
   no ChatMessage and no store write, and every chat-message store write
   follows a ChatMessage the reader produced. *)
BothNull(f) == f.msgType = Null /\ f.msgSubType = Null

C4_OnlyDataPushHandedOver ==
    /\ [][/\ arrived' # arrived =>
               /\ rpc = "decode" /\ BothNull(frame)
               /\ arrived' = Append(arrived, frame.body)
               /\ rpc' = "send" /\ wsmsg' = frame.body
          /\ (rpc = "decode" /\ rpc' # "decode" /\ ~BothNull(frame)) =>
               /\ rpc' = "read"
               /\ UNCHANGED <<wsmsg, arrived, processed, storeVars>>]_vars
    /\ [](Len(LatestWrites) <= Len(arrived) /\ IsPrefix(processed, arrived))

(* A control frame (both tags present) was read and skipped: the reader is back
   at c.Read, nothing was handed over and nothing was written. *)
C4_Witness ==
    /\ rpc = "read" /\ nframes = 1
    /\ frame.kind = "text" /\ frame.decodes
    /\ frame.msgType # Null /\ frame.msgSubType # Null
    /\ arrived = <<>> /\ kvLatest = NoMsg /\ LatestWrites = <<>>

---------------------------------------------------------------------------
(* C5: in the message embedded in the send frame every double-quote is escaped,
   that is, preceded by an odd number of backslashes, so that it does not
   end the quoted string of the mutation; and the message neither starts nor
   ends with whitespace.  Checked under SpecEscape. *)
RECURSIVE BackslashesBefore(_, _)
BackslashesBefore(s, i) ==
    IF i > 1 /\ s[i - 1] = Backslash THEN 1 + BackslashesBefore(s, i - 1) ELSE 0

QuotesEscaped(s) ==
    \A i \in 1..Len(s) : s[i] = Quote => BackslashesBefore(s, i) % 2 = 1

Trimmed(s) == s = <<>> \/ (s[1] # Space /\ s[Len(s)] # Space)

C5_QuotesEscapedAndTrimmed ==
    \A i \in 1..Len(sock) :
        sock[i].event = "doc" =>
            QuotesEscaped(sock[i].message) /\ Trimmed(sock[i].message)

---------------------------------------------------------------------------
(* C6: when a tick is pending as the loop finishes a reaction, the heartbeat is
   sent before any further chat-message or outgoing-request reaction starts:
   with a tick pending between two reactions, the loop neither takes a message
   from wsmsg nor a request from incoming. *)
C6_DueHeartbeatFirst ==
    [][(BetweenReactions /\ tickPending) =>
           (processed' = processed /\ Len(incoming') >= Len(incoming))]_vars

---------------------------------------------------------------------------
(* C7 as stated: when the startup read finds the key absent or corrupt, the
   history in memory is empty when the loop begins, and the key exists, holding
   an empty history, before any chat message is processed. *)
NoUsableSnapshot == pc # "load" /\ found \in {"absent", "corrupt"}

C7_EmptyHistoryWrittenBack ==
    NoUsableSnapshot =>
        /\ loaded = <<>>
        /\ processed = <<>> => chatHistory = <<>>
        /\ kvHistory.st = "ok"
        /\ LatestWrites = <<>> => kvHistory = Stored(<<>>)

(* C7 amended: the history in memory is empty when the loop begins and the
   write of an empty history is the first store write of the process; the key
   exists, holding the empty history until a chat message is processed, when
   that write succeeded. *)
C7_EmptyHistoryWriteAttempted ==
    NoUsableSnapshot =>
        /\ loaded = <<>>
        /\ processed = <<>> => chatHistory = <<>>
        /\ writes # <<>> /\ IsHistory(writes[1]) /\ writes[1].val = <<>>
        /\ writes[1].ok =>
              /\ kvHistory.st = "ok"
              /\ LatestWrites = <<>> => kvHistory = Stored(<<>>)

(* A corrupt value was replaced by the empty history, and a message waits on
   wsmsg that the loop has not taken yet. *)
C7_Witness ==
    /\ found = "corrupt" /\ pc = "select" /\ rpc = "send" /\ processed = <<>>
    /\ writes = <<[key |-> "history", val |-> <<>>, ok |-> TRUE]>>
    /\ kvHistory = Stored(<<>>) /\ chatHistory = <<>>

---------------------------------------------------------------------------
(* C8: the store writes of the loop follow the arrival order.  After the write
   of startup, the SetJSON calls are latest(m1), history, latest(m2), history,
   ...: both writes for a message are issued before either write for a later
   one, the values written to the latest key are the messages in arrival order,
   and the history written for a message ends with it (capacity >= 1). *)
LoopWrites ==
    IF found \in {"absent", "corrupt", "error"} THEN Tail(writes) ELSE writes

C8_WritesInArrivalOrder ==
    /\ Len(LoopWrites) <= 2 * Len(processed)
    /\ Len(LoopWrites) >= 2 * (Len(processed) - 1)
    /\ IsPrefix(processed, arrived)
    /\ \A i \in 1..Len(LoopWrites) :
          LET w == LoopWrites[i] IN
          IF i % 2 = 1
          THEN IsLatest(w) /\ w.val = arrived[(i + 1) \div 2]
          ELSE /\ IsHistory(w)
               /\ capacity >= 1 => (w.val # <<>> /\ Last(w.val) = arrived[i \div 2])

(* Two different messages were processed, four writes issued in order. *)
C8_Witness ==
    /\ BetweenReactions /\ processed = <<"A", "B">>
    /\ Len(LoopWrites) = 4 /\ LoopWrites[3].val = "B"
    /\ LoopWrites[2].val = <<"A">>

---------------------------------------------------------------------------
(* C9: the handoff on wsmsg neither drops nor duplicates.  The messages the
   loop has taken are a prefix of those the reader produced, at most one is in
   flight and it is the one the reader is blocked sending; the reader reads no
   frame meanwhile and is released only by the loop taking that message; and,
   the loop being scheduled, a message in flight is taken by the loop unless
   the process ends.  Checked under SpecFair. *)
C9_HandoffLossless ==
    /\ [](/\ IsPrefix(processed, arrived)
          /\ Len(arrived) = Len(processed) + (IF rpc = "send" THEN 1 ELSE 0)
          /\ rpc = "send" => wsmsg = Last(arrived))
    /\ [][rpc = "send" =>
             /\ nframes' = nframes /\ frame' = frame /\ arrived' = arrived
             /\ rpc' # "send" => processed' = Append(processed, wsmsg)]_vars
    /\ (rpc = "send") ~> (rpc # "send" \/ status # "running")

(* Two messages went through the handoff, the second after the first was
   processed. *)
C9_Witness ==
    /\ arrived = <<"A", "B">> /\ processed = <<"A", "B">> /\ rpc = "read"
    /\ status = "running"

---------------------------------------------------------------------------
(* C10: a read error of the socket and a failed heartbeat write end the
   process, and an ended process takes no further step: no reconnect, no
   further read, no further reaction. *)
C10_FatalErrorsTerminate ==
    /\ [](lastErr \in {"read", "heartbeat"} => status = "exited")
    /\ [][status = "running"]_vars

(* The heartbeat write failed while a message waited on wsmsg and a request
   on incoming: neither is handled. *)
C10_Witness ==
    /\ status = "exited" /\ lastErr = "heartbeat"
    /\ rpc = "send" /\ incoming # <<>>

---------------------------------------------------------------------------
(* C11: recovered errors never stop the loop.  A failed write of the latest
   key leaves the process running and the reaction goes on to the append; a
   failed write of the history key and a failed send of an outgoing request
   leave the process running and the loop back at its select.  The message of
   a reaction is in the in-memory history when the history write is issued
   (capacity >= 1), and between reactions both writes have been issued for
   every message taken, whatever their outcomes. *)
C11_RecoveredErrorsKeepLoop ==
    /\ [][/\ (Looping /\ writes' # writes /\ ~Last(writes').ok) =>
               /\ status' = status
               /\ pc' = IF IsLatest(Last(writes')) THEN "append" ELSE "select"
          /\ (Len(incoming') < Len(incoming)) =>
               /\ status' = status
               /\ pc' = "select"]_vars
    /\ [](/\ (pc = "setHistory" /\ capacity >= 1) =>
                (chatHistory # <<>> /\ Last(chatHistory) = msg)
          /\ BetweenReactions => Len(LoopWrites) = 2 * Len(processed))

(* The latest-key write of A failed, A is in the history that was written
   next, a send failed too, and the loop is running at its select. *)
C11_Witness ==
    /\ BetweenReactions /\ status = "running" /\ processed = <<"A">>
    /\ Len(LoopWrites) = 2
    /\ IsLatest(LoopWrites[1]) /\ ~LoopWrites[1].ok
    /\ IsHistory(LoopWrites[2]) /\ LoopWrites[2].val = <<"A">>
    /\ chatHistory = <<"A">> /\ lastErr = "send"

---------------------------------------------------------------------------
(* C12: each request the subscription delivers is consumed exactly once.  The
   requests still waiting are the newest of those delivered, in order; taking
   one removes the head of incoming and writes at most one frame, the send
   frame of that request, or none when the write failed, and then the request
   is gone; no other step writes a send frame or records a send error; so the
   send frames on the socket are, in order, those of the requests consumed,
   without the ones whose send failed. *)
IsDoc(f) == f.event = "doc"

Docs == SelectSeq(sock, IsDoc)

Consumed == SubSeq(reqs, 1, Len(reqs) - Len(incoming))

(* a is b with some elements left out *)
RECURSIVE IsSubSeq(_, _)
IsSubSeq(a, b) ==
    IF a = <<>> THEN TRUE
    ELSE IF b = <<>> THEN FALSE
    ELSE IF Head(a) = Head(b) THEN IsSubSeq(Tail(a), Tail(b))
    ELSE IsSubSeq(a, Tail(b))

C12_RequestsConsumedOnce ==
    /\ [](/\ Len(incoming) <= Len(reqs)
          /\ incoming = SubSeq(reqs, Len(reqs) - Len(incoming) + 1, Len(reqs))
          /\ Len(Docs) <= Len(Consumed)
          /\ IsSubSeq(Docs,
                      [i \in 1..Len(Consumed) |->
                          SendFrame(EscapeMessage(Consumed[i]))]))
    /\ [][/\ (Len(incoming') < Len(incoming)) =>
               /\ incoming' = Tail(incoming)
               /\ reqs' = reqs
               /\ \/ sock' = Append(sock,
                                    SendFrame(EscapeMessage(Head(incoming))))
                  \/ sock' = sock /\ lastErr' = "send"
          /\ (Docs' # Docs \/ (lastErr' = "send" /\ lastErr # "send")) =>
               Len(incoming') < Len(incoming)]_vars

(* Three requests were delivered and consumed; the send of the second one
   failed and it was not sent again. *)
C12_Witness ==
    /\ reqs = << <<"a">>, <<Space, Quote>>, <<"a">> >>
    /\ incoming = <<>>
    /\ sock = <<SendFrame(<<"a">>), SendFrame(<<"a">>)>>
    /\ lastErr = "send" /\ status = "running"

---------------------------------------------------------------------------
(* C13, checked under SpecStall.  A call that has not returned is the state in
   which its caller stands inside it: the loop at pc = "setLatest" or
   "setHistory" (store write), at "beat" or "forward" (socket send); the reader
   at rpc = "read" (transport read).  A step that leaves the caller inside the
   call is a step taken while the call is outstanding. *)
InLoopCall == pc \in {"setLatest", "setHistory", "beat", "forward"}

(* the statement the loop reaches when the call returns *)
AfterCall(p) == IF p = "setLatest" THEN "append" ELSE "select"

(* the step is no part of a reaction: no frame written, no request taken, no
   tick taken, no message taken, no store write, the history untouched *)
NoReactionStep ==
    /\ sock' = sock
    /\ Len(incoming') >= Len(incoming)
    /\ tickPending => tickPending'
    /\ processed' = processed
    /\ writes' = writes
    /\ chatHistory' = chatHistory

(* C13 as stated: while a transport read, a store write or a socket send has
   not returned, the loop performs no further reaction. *)
C13_AnyStallBlocksRelay ==
    [][/\ (Running /\ InLoopCall) =>
            \/ pc' = pc /\ NoReactionStep
            \/ pc' = AfterCall(pc)
            \/ status' # "running"
       /\ (Running /\ rpc = "read" /\ rpc' = "read") => NoReactionStep]_vars

(* C13 amended: a store write or a socket send that has not returned blocks the
   loop: every step until its return is no part of a reaction.  A transport
   read that has not returned blocks the reader only: no chat message is
   produced or taken meanwhile. *)
C13_LoopCallStallBlocksRelay ==
    [][/\ (Running /\ InLoopCall) =>
            \/ pc' = pc /\ NoReactionStep
            \/ pc' = AfterCall(pc)
            \/ status' # "running"
       /\ (Running /\ rpc = "read" /\ rpc' = "read") =>
            (arrived' = arrived /\ processed' = processed)]_vars

(* The send of a request has not returned while a tick is due, a second
   request waits and a message waits on wsmsg: none of them is handled. *)
C13_Witness ==
    /\ status = "running" /\ pc = "forward"
    /\ tickPending /\ rpc = "send" /\ sock = <<>> /\ processed = <<>>

---------------------------------------------------------------------------
(* C14: reactions are serialized and never split.  A reaction (a tick taken, a
   message taken from wsmsg, a request taken from incoming, a frame written to
   the socket) starts only when the loop stands at its select, so never inside
   another one; in particular no frame is written between the latest-key write
   and the history-key write of a chat-message reaction.  ChatHistory changes
   only at the startup load and at the append of the loop, and never in a step
   of the reader. *)
InChatReaction == pc \in {"setLatest", "append", "setHistory"}

ReactionStarts ==
    \/ sock' # sock
    \/ processed' # processed
    \/ Len(incoming') < Len(incoming)
    \/ tickPending /\ ~tickPending'

ReaderStep == nframes' # nframes \/ arrived' # arrived \/ frame' # frame

C14_ReactionsNeverSplit ==
    [][/\ ReactionStarts => pc = "select"
       /\ InChatReaction => sock' = sock
       /\ chatHistory' # chatHistory =>
            (pc \in {"load", "append"} /\ pc' # "select" /\ ~ReaderStep)
       /\ ReaderStep => UNCHANGED <<chatHistory, pc, storeVars, sock>>]_vars

(* Between the two writes of a reaction a tick is due and a request waits; no
   frame has been written. *)
C14_Witness ==
    /\ pc = "setHistory" /\ status = "running"
    /\ tickPending /\ incoming # <<>> /\ sock = <<>>
    /\ writes # <<>> /\ IsLatest(Last(writes))

---------------------------------------------------------------------------
(* C15: a text frame that does not decode, and a frame that is not text, are
   skipped: the reader goes back to c.Read, the process keeps its status, no
   ChatMessage is produced and nothing is written to the store; and a
   data-push frame is handed to the loop whatever was skipped before it. *)
C15_BadFramesSkipped ==
    [][/\ (/\ rpc = "decode" /\ rpc' # "decode"
           /\ (Undecodable(frame) \/ frame.kind # "text")) =>
             /\ rpc' = "read"
             /\ status' = status
             /\ UNCHANGED <<wsmsg, arrived, processed, chatHistory, storeVars>>
       /\ (rpc = "decode" /\ rpc' # "decode" /\ Hands(frame)) =>
             /\ rpc' = "send"
             /\ wsmsg' = frame.body
             /\ arrived' = Append(arrived, frame.body)]_vars

(* The first frame did not decode and was skipped; the second, a data push
   carrying B, waits on wsmsg for the loop. *)
C15_Witness ==
    /\ lastErr = "decode" /\ status = "running"
    /\ nframes = 2 /\ arrived = <<"B">> /\ rpc = "send" /\ wsmsg = "B"
    /\ LatestWrites = <<>>

---------------------------------------------------------------------------
(* C16: frame conditions of the three reactions.  The reaction to a tick
   leaves ChatHistory, the latest key and the history key alone, issues no
   store write, and writes one heartbeat frame (none reaches the socket when
   the write fails, and the process ends).  The reaction to an outgoing
   request leaves the same alone and writes one send frame, that of the
   request (none reaches the socket when the write fails).  A chat-message
   reaction writes nothing to the socket. *)
StoreAndHistoryUntouched ==
    UNCHANGED <<chatHistory, kvLatest, kvHistory, writes>>

C16_FrameConditions ==
    [][/\ (tickPending /\ ~tickPending') =>
            /\ StoreAndHistoryUntouched
            /\ UNCHANGED <<incoming, processed>>
            /\ \/ sock' = Append(sock, HeartbeatFrame)
               \/ sock' = sock /\ status' = "exited"
       /\ (Len(incoming') < Len(incoming)) =>
            /\ StoreAndHistoryUntouched
            /\ UNCHANGED <<tickPending, processed>>
            /\ \/ sock' = Append(sock, SendFrame(EscapeMessage(Head(incoming))))
               \/ sock' = sock /\ lastErr' = "send"
       /\ (processed' # processed \/ InChatReaction) => sock' = sock]_vars

(* A message was processed, then a request and a tick were served: the history
   and both keys are as the chat-message reaction left them. *)
C16_Witness ==
    /\ BetweenReactions /\ status = "running"
    /\ sock = <<SendFrame(<<"a">>), HeartbeatFrame>>
    /\ processed = <<"A">> /\ chatHistory = <<"A">>
    /\ kvLatest = "A" /\ kvHistory = Stored(<<"A">>)
    /\ Len(LoopWrites) = 2

---------------------------------------------------------------------------
(* C17: startup never replaces a valid persisted history by an empty one.  When
   the chat-history key holds a valid snapshot as the process starts, the
   startup load, whatever the outcome of its read, leaves that snapshot in
   memory and under the key. *)
C17_StartupKeepsSnapshot ==
    [][(pc = "load" /\ kvHistory.st = "ok") =>
           (chatHistory' = kvHistory.val /\ kvHistory' = kvHistory)]_vars

---------------------------------------------------------------------------
(* C18: the persisted history heals after a failed history write.  When the
   last store write is a successful write of the history key, the key holds
   the in-memory history; and the in-memory history is the startup history
   followed by every message appended so far, cut to the last `capacity`
   entries from the first append on, whatever the outcomes of the store
   writes. *)
NumAppended ==
    IF pc \in {"setLatest", "append"} THEN Len(processed) - 1
    ELSE Len(processed)

C18_PersistedHistorySelfHeals ==
    /\ (writes # <<>> /\ IsHistory(Last(writes)) /\ Last(writes).ok) =>
          kvHistory = Stored(chatHistory)
    /\ (pc # "load" /\ status # "panicked") =>
          chatHistory =
             IF NumAppended = 0 THEN loaded
             ELSE LastN(loaded \o SubSeq(processed, 1, NumAppended), capacity)

(* The history write for A failed, the one for B succeeded: A is in the
   persisted history all the same. *)
C18_Witness ==
    /\ BetweenReactions /\ processed = <<"A", "B">> /\ loaded = <<>>
    /\ Len(LoopWrites) = 4
    /\ ~LoopWrites[2].ok /\ LoopWrites[4].ok
    /\ kvHistory = Stored(<<"A", "B">>)

---------------------------------------------------------------------------
(* C19: the latest-key write and the history write of one message are never
   observed apart.  Whenever the loop stands between two reactions or the
   process has ended, every store write issued so far succeeded, capacity >= 1
   and a chat message was published under the latest key, the latest key holds
   the last element of the persisted history. *)
AllWritesOk == \A i \in 1..Len(writes) : writes[i].ok

C19_LatestMatchesHistory ==
    (/\ BetweenReactions \/ status # "running"
     /\ AllWritesOk /\ capacity >= 1 /\ LatestWrites # <<>>) =>
        /\ kvHistory.st = "ok"
        /\ kvHistory.val # <<>>
        /\ kvLatest = Last(kvHistory.val)

---------------------------------------------------------------------------
(* C20: for every integer capacity, 0 and the negative ones included, and
   every prior history, the append of a chat-message reaction ends without
   ending the process, leaving a history of length
   max(0, min(capacity, previous length + 1)); with capacity 0 the history is
   empty after every reaction. *)
Max(a, b) == IF a >= b THEN a ELSE b

Min(a, b) == IF a <= b THEN a ELSE b

AppendStep ==
    /\ pc = "append"
    /\ pc' # pc \/ chatHistory' # chatHistory \/ status' = "panicked"

C20_ReactionCompletesForEveryCapacity ==
    /\ [][AppendStep =>
             /\ status' = "running"
             /\ pc' = "setHistory"
             /\ Len(chatHistory') =
                   Max(0, Min(capacity, Len(chatHistory) + 1))]_vars
    /\ []((capacity = 0 /\ NumAppended > 0 /\ pc # "load") => chatHistory = <<>>)

====
